---- MODULE Spec2Model ----
(***************************************************************************)
(* Coordination core of dodal: the collision-avoiding safe move of         *)
(* ApertureScatterguard (src/dodal/devices/aperturescatterguard.py) and    *)
(* the acquisition lifecycle of EigerDetector (src/dodal/devices/eiger.py).*)
(*                                                                         *)
(* Spec           : the safe move (load_aperture_positions, set, motors).  *)
(* SpecEigerCalls : the methods of EigerDetector called one at a time.     *)
(* SpecEiger      : stage() and unstage(), their waits, the hardware events. *)
(* SpecParams     : the construction of DetectorParams from a directory.   *)
(* Positions and energies are fixed-point integers (energies: 0.1 eV).     *)
(***************************************************************************)
EXTENDS Integers, Sequences, FiniteSets, TLC

\* ------------------------------------------------------------------ bounds
\* Motor positions are drawn from 0..MaxVal.
MaxVal == 2
\* Number of set() calls in one behaviour.
MaxCalls == 2

\* Energies (units of 0.1 eV) are drawn from 0..MaxEnergy, tolerances from
\* 0..MaxTolerance.
MaxEnergy == 3
MaxTolerance == 2
\* num_triggers and num_images_per_trigger are drawn from 1..MaxTriggers and
\* 1..MaxImages.
MaxTriggers == 3
MaxImages == 3
\* Number of stage() calls in one behaviour.
MaxStageCalls == 2
\* Directories are strings of at most MaxDirLen characters.
MaxDirLen == 4

Vals == 0..MaxVal

\* ------------------------------------------------------------ safe move
\* The five axes, in the order of the preset tuple
\* (miniap_x, miniap_y, miniap_z, scatterguard_x, scatterguard_y).
Axes == <<"ap_x", "ap_y", "ap_z", "sg_x", "sg_y">>
AxisNames == {"ap_x", "ap_y", "ap_z", "sg_x", "sg_y"}
ApertureAxes == {"ap_x", "ap_y", "ap_z"}
ScatterguardAxes == {"sg_x", "sg_y"}

VARIABLES
    aperture_positions, \* <<>> (None) or <<the loaded AperturePositions>>
    setpoint,           \* user_setpoint of every axis
    ap_y_readback,      \* aperture.y.user_readback
    ap_z_done_move,     \* aperture.z.motor_done_move
    st,                 \* status object of the latest move of every axis
    pc,                 \* where the running set() call is
    req,                \* the argument of the running / last set() call
    cmds,               \* the axis.set(value) calls issued by that call, in order
    reads,              \* the signals that call has read, in order
    current_ap_y,       \* the aperture-y readback that call read (-1: not read)
    result,             \* how that call ended
    ncalls              \* set() calls made so far

apVars == <<aperture_positions, setpoint, ap_y_readback, ap_z_done_move, st,
            pc, req, cmds, reads, current_ap_y, result, ncalls>>

\* EigerDetector
VARIABLES
    detector_params,    \* <<>> (None) or <<the stored DetectorParams>>
    cam_photon_energy,  \* cam.photon_energy
    call,               \* the running / last call: <<method, arguments...>>
    writes,             \* the signal.set / signal.put and odin calls made by that call, in order
    ret,                \* what that call returned: a status object, a boolean, a
                        \* DetectorParams ("none": nothing)
    e_result,           \* how that call ended: [kind, msg]
    e_pc,               \* where the running stage() / unstage() call is ("idle": no call runs)
    odin_initialised,   \* what odin.check_odin_initialised() returns: <<ok, message>>
    stat,               \* the status objects of the running stage() / unstage() call
    stale_params,       \* CAM:StaleParameters_RBV
    meta_file_name,     \* odin.meta.file_name readback
    fw_id,              \* odin.file_writer.id readback
    meta_ready,         \* odin.meta.ready
    fan_ready,          \* odin.fan.ready
    filewriters_finished, \* the stage() call that created the attribute (0: unset)
    finished_status,    \* the status object held by filewriters_finished
    n_stage             \* stage() calls made so far

stVars == <<e_pc, odin_initialised, stat, stale_params, meta_file_name, fw_id,
            meta_ready, fan_ready, filewriters_finished, finished_status, n_stage>>

egVars == <<detector_params, cam_photon_energy, call, writes, ret, e_result, stVars>>

vars == <<apVars, egVars>>

\* AperturePositions tables a beamline can load (from_gda_beamline_params).
TableA == [LARGE      |-> <<0, 1, 1, 0, 1>>,
           MEDIUM     |-> <<1, 2, 1, 1, 2>>,
           SMALL      |-> <<2, 0, 1, 2, 0>>,
           ROBOT_LOAD |-> <<0, 2, 0, 0, 2>>]
TableB == [LARGE      |-> <<1, 0, 2, 1, 0>>,
           MEDIUM     |-> <<1, 1, 2, 2, 1>>,
           SMALL      |-> <<1, 2, 2, 0, 2>>,
           ROBOT_LOAD |-> <<2, 2, 2, 2, 2>>]
Tables == {TableA, TableB}

PresetsOf(t) == {t.LARGE, t.MEDIUM, t.SMALL, t.ROBOT_LOAD}

\* The 5-tuples a caller passes to set(): the presets of every table (those of
\* the table that is not loaded are foreign), and every preset with one
\* coordinate off by one.
NearMisses(t) ==
    {[p EXCEPT ![i] = (p[i] + 1) % (MaxVal + 1)] : p \in PresetsOf(t), i \in 1..5}
Positions == UNION {PresetsOf(t) \cup NearMisses(t) : t \in Tables}

\* AperturePositions.position_valid
position_valid_anywhere(t, pos) == TRUE
position_valid(t, pos) == pos \in {t.LARGE, t.MEDIUM, t.SMALL, t.ROBOT_LOAD}

\* set(): the two assertions guarding the safe move.
set_asserts_hold(pos) ==
    /\ aperture_positions # <<>>
    /\ position_valid(aperture_positions[1], pos)

\* ophyd AndStatus over the latest moves of a set of axes.
AndDone(S) == (\E a \in S : st[a] = "failed") \/ (\A a \in S : st[a] = "done")

\* axis.set(value) for every axis of S, in tuple order, with the values of pos.
AxisIndex(a) == CHOOSE i \in 1..5 : Axes[i] = a
Commands(order, pos) == [i \in 1..Len(order) |-> <<order[i], pos[AxisIndex(order[i])]>>]
ScatterguardOrder == <<"sg_x", "sg_y">>
ApertureOrderWithoutZ == <<"ap_x", "ap_y">>
ApertureOrder == <<"ap_x", "ap_y", "ap_z">>

Commanded == {cmds[i][1] : i \in 1..Len(cmds)}

\* axis.set(value) for every axis of `order`, in that order: the calls are
\* appended to `issued`, and every commanded motor starts moving.
IssueSets(issued, order, pos) ==
    LET S == {order[i] : i \in 1..Len(order)} IN
    /\ cmds' = issued \o Commands(order, pos)
    /\ setpoint' = [a \in AxisNames |-> IF a \in S THEN pos[AxisIndex(a)] ELSE setpoint[a]]
    /\ st' = [a \in AxisNames |-> IF a \in S THEN "moving" ELSE st[a]]
    /\ ap_z_done_move' = IF "ap_z" \in S THEN FALSE ELSE ap_z_done_move

\* The status objects a stage() or unstage() call creates: the AND of the sets of one method,
\* a single set, or an await_value.
SetStatuses == {"roi", "threshold", "cam", "chunks", "odin", "mx", "trig", "capture",
                "acquire", "stop"}
AwaitStatuses == {"meta_file_name", "fw_id", "stale", "meta_ready", "fan_ready",
                  "num_captured"}
StatusNames == SetStatuses \cup AwaitStatuses
NoStatuses == [n \in StatusNames |-> "none"]

\* No stage() call has run.
StageAtRest ==
    /\ e_pc = "idle"
    /\ odin_initialised = <<TRUE, "">>
    /\ stat = NoStatuses
    /\ stale_params = 0
    /\ meta_file_name = <<>>
    /\ fw_id = <<>>
    /\ meta_ready = 0
    /\ fan_ready = 0
    /\ filewriters_finished = 0
    /\ finished_status = "none"
    /\ n_stage = 0

\* The detector, constructed and left alone.
EigerAtRest ==
    /\ StageAtRest
    /\ detector_params = <<>>
    /\ cam_photon_energy = 0
    /\ call = <<>>
    /\ writes = <<>>
    /\ ret = "none"
    /\ e_result = [kind |-> "none", msg |-> <<>>]

Init ==
    /\ EigerAtRest
    /\ aperture_positions = <<>>
    /\ setpoint \in {f \in [AxisNames -> Vals] : \A a \in AxisNames \ {"ap_z"} : f[a] = 0}
    /\ ap_y_readback \in Vals
    /\ ap_z_done_move \in BOOLEAN
    /\ st = [a \in AxisNames |-> "none"]
    /\ pc = "idle"
    /\ req = <<>>
    /\ cmds = <<>>
    /\ reads = <<>>
    /\ current_ap_y = -1
    /\ result = "none"
    /\ ncalls = 0

\* load_aperture_positions(positions)
LoadAperturePositions ==
    /\ pc = "idle"
    /\ aperture_positions = <<>>
    /\ \E t \in Tables : aperture_positions' = <<t>>
    /\ UNCHANGED <<setpoint, ap_y_readback, ap_z_done_move, st, pc, req, cmds,
                   reads, current_ap_y, result, ncalls>>

\* Line 102: if not ap_z_in_position: return
z_ignored(ap_z_in_position) == FALSE
z_not_in_position(ap_z_in_position) == ~ap_z_in_position

\* Line 105: if current_ap_z != aperture_z: raise
z_plane_unchecked(current_ap_z, aperture_z) == FALSE
z_plane_differs(current_ap_z, aperture_z) == current_ap_z # aperture_z

\* Line 112: if aperture_y > current_ap_y (scatterguard first), else aperture first.
scatterguard_first_reversed(aperture_y, current_y) == aperture_y < current_y
scatterguard_first_on_equal(aperture_y, current_y) == aperture_y >= current_y
scatterguard_first(aperture_y, current_y) == aperture_y > current_y

\* set(pos) up to its first blocking point: the assertions, the three reads of
\* _safe_move_within_datacollection_range and the sets of the first phase.
SetCall(pos) ==
    /\ pc = "idle"
    /\ ncalls < MaxCalls
    /\ ncalls' = ncalls + 1
    /\ req' = pos
    /\ UNCHANGED <<aperture_positions, ap_y_readback>>
    /\ IF ~set_asserts_hold(pos)
       THEN /\ result' = "InvalidApertureMove"
            /\ cmds' = <<>>
            /\ reads' = <<>>
            /\ current_ap_y' = -1
            /\ UNCHANGED <<setpoint, st, ap_z_done_move, pc>>
       ELSE IF z_not_in_position(ap_z_done_move)
       THEN /\ result' = "None"
            /\ cmds' = <<>>
            /\ reads' = <<"ap_z.motor_done_move">>
            /\ current_ap_y' = -1
            /\ UNCHANGED <<setpoint, st, ap_z_done_move, pc>>
       ELSE IF z_plane_differs(setpoint["ap_z"], pos[3])
       THEN /\ result' = "InvalidApertureMove"
            /\ cmds' = <<>>
            /\ reads' = <<"ap_z.motor_done_move", "ap_z.user_setpoint">>
            /\ current_ap_y' = -1
            /\ UNCHANGED <<setpoint, st, ap_z_done_move, pc>>
       ELSE /\ result' = "running"
            /\ reads' = <<"ap_z.motor_done_move", "ap_z.user_setpoint",
                          "ap_y.user_readback">>
            /\ current_ap_y' = ap_y_readback
            /\ IF scatterguard_first(pos[2], ap_y_readback)
               THEN /\ pc' = "sg_status.wait"
                    /\ IssueSets(<<>>, ScatterguardOrder, pos)
               ELSE /\ pc' = "ap_status.wait"
                    /\ IssueSets(<<>>, ApertureOrder, pos)

\* status.wait() with no timeout: the caller stays blocked until the composite of
\* the first phase is done.
wait_skipped(S) == TRUE
wait_unblocked(S) == AndDone(S)

\* status.wait() raises the exception of a failed status.
wait_never_raises(S) == FALSE
wait_raises(S) == \E a \in S : st[a] = "failed"

FirstPhaseAxes == IF pc = "sg_status.wait" THEN ScatterguardAxes ELSE ApertureAxes
SecondPhaseOrder == IF pc = "sg_status.wait" THEN ApertureOrder ELSE ScatterguardOrder

\* The wait returns (the first phase succeeded): the second phase is set and the
\* AND of the five statuses is returned without waiting for it.
WaitReturns ==
    /\ pc \in {"sg_status.wait", "ap_status.wait"}
    /\ wait_unblocked(FirstPhaseAxes)
    /\ ~wait_raises(FirstPhaseAxes)
    /\ IssueSets(cmds, SecondPhaseOrder, req)
    /\ pc' = "idle"
    /\ result' = "AndStatus"
    /\ UNCHANGED <<aperture_positions, ap_y_readback, req, reads, current_ap_y, ncalls>>

\* The wait raises (the first phase failed): the exception leaves set().
WaitRaises ==
    /\ pc \in {"sg_status.wait", "ap_status.wait"}
    /\ wait_unblocked(FirstPhaseAxes)
    /\ wait_raises(FirstPhaseAxes)
    /\ pc' = "idle"
    /\ result' = "StatusFailed"
    /\ UNCHANGED <<aperture_positions, setpoint, ap_y_readback, ap_z_done_move, st,
                   req, cmds, reads, current_ap_y, ncalls>>

\* final_status: the AND of the first-phase composite with the statuses of the
\* second-phase sets, that is of every set the call has issued.
FinalStatusAxes == Commanded
FinalStatusDone == AndDone(FinalStatusAxes)
FinalStatusSuccess == \A a \in FinalStatusAxes : st[a] = "done"

\* A motor reaches its setpoint: its move status finishes successfully.
MotorDone(a) ==
    /\ st[a] = "moving"
    /\ st' = [st EXCEPT ![a] = "done"]
    /\ ap_y_readback' = IF a = "ap_y" THEN setpoint[a] ELSE ap_y_readback
    /\ ap_z_done_move' = IF a = "ap_z" THEN TRUE ELSE ap_z_done_move
    /\ UNCHANGED <<aperture_positions, setpoint, pc, req, cmds, reads, current_ap_y,
                   result, ncalls>>

\* A motor stops short of its setpoint: its move status finishes in failure.
MotorFail(a) ==
    /\ st[a] = "moving"
    /\ st' = [st EXCEPT ![a] = "failed"]
    /\ ap_y_readback' \in IF a = "ap_y" THEN {ap_y_readback, setpoint[a]} ELSE {ap_y_readback}
    /\ ap_z_done_move' = IF a = "ap_z" THEN TRUE ELSE ap_z_done_move
    /\ UNCHANGED <<aperture_positions, setpoint, pc, req, cmds, reads, current_ap_y,
                   result, ncalls>>

\* The aperture z motor, found moving at start-up, comes to rest.
ApertureZSettles ==
    /\ ~ap_z_done_move
    /\ st["ap_z"] # "moving"
    /\ ap_z_done_move' = TRUE
    /\ UNCHANGED <<aperture_positions, setpoint, ap_y_readback, st, pc, req, cmds,
                   reads, current_ap_y, result, ncalls>>

Next ==
    \/ LoadAperturePositions /\ UNCHANGED egVars
    \/ \E pos \in Positions : SetCall(pos) /\ UNCHANGED egVars
    \/ WaitReturns /\ UNCHANGED egVars
    \/ WaitRaises /\ UNCHANGED egVars
    \/ \E a \in AxisNames : MotorDone(a) /\ UNCHANGED egVars
    \/ \E a \in AxisNames : MotorFail(a) /\ UNCHANGED egVars
    \/ ApertureZSettles /\ UNCHANGED egVars

Spec == Init /\ [][Next]_vars

\* ------------------------------------------------- safe move: properties
\* The request is one of the four presets of the loaded table.
ValidRequest(pos) == aperture_positions # <<>> /\ pos \in PresetsOf(aperture_positions[1])
\* A step that is a call of set().
CallStep == ncalls' = ncalls + 1
\* A step of the running call that issues further axis sets.
SecondPhaseStep == ncalls' = ncalls /\ cmds # <<>> /\ Len(cmds') > Len(cmds)
NoMotion == cmds' = <<>> /\ UNCHANGED <<setpoint, st, ap_z_done_move, ap_y_readback>>
SgCommands(pos) == <<<<"sg_x", pos[4]>>, <<"sg_y", pos[5]>>>>
ApCommands(pos) == <<<<"ap_x", pos[1]>>, <<"ap_y", pos[2]>>, <<"ap_z", pos[3]>>>>
ReachedMove == current_ap_y # -1

\* C1: two-phase barrier. A step of set() that issues the sets of the second
\* phase is taken only when the composite status of the first phase (the AND of
\* all moves issued so far by this call) is finished, and those sets are on
\* axes of the other device: the five moves are never started together.
C1_TwoPhaseBarrier ==
    [][SecondPhaseStep =>
          /\ AndDone(Commanded)
          /\ Commanded \in {ApertureAxes, ScatterguardAxes}
          /\ \A i \in (Len(cmds) + 1)..Len(cmds') : cmds'[i][1] \notin Commanded]_vars
C1_Witness ==
    /\ result = "AndStatus"
    /\ Len(cmds) = 5
    /\ \E i \in 1..5 : st[cmds[i][1]] = "moving"

\* C2: requested aperture-y strictly greater than the aperture-y readback the
\* call read: scatterguard x and y are commanded first, and an aperture axis is
\* commanded only once both scatterguard moves are complete; then aperture x, y
\* and z are commanded, in that order.
C2_ScatterguardThenAperture ==
    (ReachedMove /\ req[2] > current_ap_y) =>
        /\ Len(cmds) >= 2
        /\ SubSeq(cmds, 1, 2) = SgCommands(req)
        /\ (Commanded \cap ApertureAxes # {} =>
               /\ st["sg_x"] = "done"
               /\ st["sg_y"] = "done"
               /\ cmds = SgCommands(req) \o ApCommands(req))
        /\ (result = "AndStatus" => Len(cmds) = 5)
C2_Witness ==
    /\ ReachedMove
    /\ req[2] > current_ap_y
    /\ result = "AndStatus"
    /\ cmds = SgCommands(req) \o ApCommands(req)

\* C3: requested aperture-y less than or equal to the aperture-y readback the
\* call read (equality included): aperture x, y and z are commanded first, and a
\* scatterguard axis is commanded only once all three aperture moves are
\* complete; then scatterguard x and y are commanded.
C3_ApertureThenScatterguard ==
    (ReachedMove /\ req[2] <= current_ap_y) =>
        /\ Len(cmds) >= 3
        /\ SubSeq(cmds, 1, 3) = ApCommands(req)
        /\ (Commanded \cap ScatterguardAxes # {} =>
               /\ \A a \in ApertureAxes : st[a] = "done"
               /\ cmds = ApCommands(req) \o SgCommands(req))
        /\ (result = "AndStatus" => Len(cmds) = 5)
C3_Witness ==
    /\ ReachedMove
    /\ req[2] = current_ap_y
    /\ result = "AndStatus"
    /\ cmds = ApCommands(req) \o SgCommands(req)

\* C4: set(pos) with pos not one of the four loaded presets, or with no table
\* loaded, raises InvalidApertureMove having read no signal and set no axis.
C4_InvalidTargetRejectedBeforeMotion ==
    [][(CallStep /\ ~ValidRequest(req')) =>
          /\ result' = "InvalidApertureMove"
          /\ reads' = <<>>
          /\ pc' = "idle"
          /\ NoMotion]_vars
\* A near miss of a preset, in a state where the preset itself would have moved.
C4_Witness ==
    /\ ncalls > 0
    /\ aperture_positions # <<>>
    /\ ~ValidRequest(req)
    /\ \E p \in PresetsOf(aperture_positions[1]) :
          /\ \E i \in {1, 2, 4, 5} : req = [p EXCEPT ![i] = req[i]]
          /\ p[3] = setpoint["ap_z"]
    /\ ap_z_done_move
    /\ result = "InvalidApertureMove"
    /\ cmds = <<>>

\* C5: set(preset) while aperture z does not report motion-complete does
\* nothing: no axis is set, no fault is raised, and the call returns None.
C5_NoOpWhileZMoving ==
    [][(CallStep /\ ValidRequest(req') /\ ~ap_z_done_move) =>
          /\ result' = "None"
          /\ pc' = "idle"
          /\ NoMotion]_vars
C5_Witness ==
    /\ ValidRequest(req)
    /\ result = "None"
    /\ ~ap_z_done_move
    /\ req[3] = setpoint["ap_z"]
    /\ cmds = <<>>

\* C6: set(preset) while aperture z is motion-complete at a setpoint other than
\* the preset's z raises InvalidApertureMove and sets no axis.
C6_OtherZPlaneRejected ==
    [][(CallStep /\ ValidRequest(req') /\ ap_z_done_move /\ setpoint["ap_z"] # req'[3]) =>
          /\ result' = "InvalidApertureMove"
          /\ pc' = "idle"
          /\ NoMotion]_vars
C6_Witness ==
    /\ ValidRequest(req)
    /\ result = "InvalidApertureMove"
    /\ ap_z_done_move
    /\ setpoint["ap_z"] # req[3]
    /\ reads = <<"ap_z.motor_done_move", "ap_z.user_setpoint">>
    /\ cmds = <<>>

\* ------------------------------------------------------ EigerDetector
\* Line 13.
FREE_RUN_MAX_IMAGES == 1000000
\* Line 171: tolerance: float = 0.1, in units of 0.1 eV.
DefaultTolerance == 1

TriggerModes == {"FREE_RUN", "SET_FRAMES"}
Energies == 0..MaxEnergy
Tolerances == 0..MaxTolerance

Abs(x) == IF x < 0 THEN -x ELSE x

\* DetectorParams as the methods called one by one read them.
\* detector_size_constants and beam_xy_converter: TRUE when set, FALSE when None.
CallParams ==
    [current_energy : {0}, use_roi_mode : {FALSE}, run_number : {0},
     exposure_time : {1}, directory : {"/test/dir/"}, prefix : {"test"},
     detector_distance : {1}, omega_start : {0}, omega_increment : {1},
     trigger_mode : TriggerModes,
     num_triggers : 1..MaxTriggers,
     num_images_per_trigger : 1..MaxImages,
     detector_size_constants : BOOLEAN,
     beam_xy_converter : BOOLEAN]

\* DetectorParams.full_number_of_images
full_number_of_images(p) == p.num_triggers * p.num_images_per_trigger

NoResult == [kind |-> "none", msg |-> <<>>]
Returned == [kind |-> "returned", msg |-> <<>>]
Raised(kind, msg) == [kind |-> kind, msg |-> msg]

\* The aperture and scatterguard, constructed and left alone.
ApertureAtRest ==
    /\ aperture_positions = <<>>
    /\ setpoint = [a \in AxisNames |-> 0]
    /\ ap_y_readback = 0
    /\ ap_z_done_move = TRUE
    /\ st = [a \in AxisNames |-> "none"]
    /\ pc = "idle"
    /\ req = <<>>
    /\ cmds = <<>>
    /\ reads = <<>>
    /\ current_ap_y = -1
    /\ result = "none"
    /\ ncalls = 0

\* set_detector_parameters: the messages of the violated checks, in order.
parameter_errors_first_only(p) ==
    IF ~p.detector_size_constants THEN <<"Detector Size must be set">>
    ELSE IF ~p.beam_xy_converter THEN <<"Beam converter must be set">>
    ELSE <<>>
parameter_errors(p) ==
    (IF ~p.detector_size_constants THEN <<"Detector Size must be set">> ELSE <<>>)
    \o (IF ~p.beam_xy_converter THEN <<"Beam converter must be set">> ELSE <<>>)

\* set_detector_parameters(detector_params): dp is <<>> (None) or <<params>>.
SetDetectorParametersCall(dp) ==
    /\ call' = <<"set_detector_parameters", dp>>
    /\ detector_params' = dp
    /\ writes' = <<>>
    /\ ret' = "none"
    /\ e_result' = IF dp = <<>>
                   THEN Raised("Exception", <<"Parameters for scan must be specified">>)
                   ELSE IF parameter_errors(dp[1]) # <<>>
                   THEN Raised("Exception", parameter_errors(dp[1]))
                   ELSE Returned
    /\ UNCHANGED cam_photon_energy

\* Line 183: if abs(current_energy - energy) > tolerance
threshold_differs_or_on_boundary(current_energy, energy, tolerance) ==
    Abs(current_energy - energy) >= tolerance
threshold_differs(current_energy, energy, tolerance) ==
    Abs(current_energy - energy) > tolerance

\* set_detector_threshold(energy, tolerance): [writes, status].
set_detector_threshold(energy, tolerance) ==
    IF threshold_differs(cam_photon_energy, energy, tolerance)
    THEN [writes |-> <<<<"cam.photon_energy", energy>>>>, status |-> "cam.photon_energy.set"]
    ELSE [writes |-> <<>>, status |-> "Status.set_finished"]

SetDetectorThresholdCall(energy, tolerance) ==
    LET r == set_detector_threshold(energy, tolerance) IN
    /\ call' = <<"set_detector_threshold", energy, tolerance, cam_photon_energy>>
    /\ writes' = r.writes
    /\ ret' = r.status
    /\ cam_photon_energy' = IF r.writes # <<>> THEN energy ELSE cam_photon_energy
    /\ e_result' = Returned
    /\ UNCHANGED detector_params

\* set_num_triggers_and_captures: the sets it issues, in order.
num_triggers_and_captures_mode_ignored(p) ==
    <<<<"cam.num_images", p.num_images_per_trigger>>,
      <<"cam.num_triggers", p.num_triggers>>,
      <<"odin.file_writer.num_capture", full_number_of_images(p)>>>>
num_triggers_and_captures_swapped(p) ==
    <<<<"cam.num_images", p.num_images_per_trigger>>>>
    \o (IF p.trigger_mode = "FREE_RUN"
        THEN <<<<"cam.num_triggers", FREE_RUN_MAX_IMAGES>>,
               <<"odin.file_writer.num_capture", 0>>>>
        ELSE <<<<"cam.num_triggers", full_number_of_images(p)>>,
               <<"odin.file_writer.num_capture", p.num_triggers>>>>)
num_triggers_and_captures(p) ==
    <<<<"cam.num_images", p.num_images_per_trigger>>>>
    \o (IF p.trigger_mode = "FREE_RUN"
        THEN <<<<"cam.num_triggers", FREE_RUN_MAX_IMAGES>>,
               <<"odin.file_writer.num_capture", 0>>>>
        ELSE IF p.trigger_mode = "SET_FRAMES"
        THEN <<<<"cam.num_triggers", p.num_triggers>>,
               <<"odin.file_writer.num_capture", full_number_of_images(p)>>>>
        ELSE <<>>)

SetNumTriggersAndCapturesCall ==
    /\ call' = <<"set_num_triggers_and_captures">>
    /\ IF detector_params = <<>>
       THEN /\ writes' = <<>>
            /\ ret' = "none"
            /\ e_result' = Raised("AssertionError", <<>>)
       ELSE /\ writes' = num_triggers_and_captures(detector_params[1])
            /\ ret' = "AndStatus"
            /\ e_result' = Returned
    /\ UNCHANGED <<detector_params, cam_photon_energy>>

\* The methods of a constructed detector, called one at a time.
InitCalls ==
    /\ ApertureAtRest
    /\ StageAtRest
    /\ detector_params = <<>>
    /\ cam_photon_energy \in Energies
    /\ call = <<>>
    /\ writes = <<>>
    /\ ret = "none"
    /\ e_result = NoResult

NextCalls ==
    \/ \E dp \in {<<>>} \cup {<<p>> : p \in CallParams} :
          SetDetectorParametersCall(dp) /\ UNCHANGED <<apVars, stVars>>
    \/ \E energy \in Energies, tolerance \in Tolerances :
          SetDetectorThresholdCall(energy, tolerance) /\ UNCHANGED <<apVars, stVars>>
    \/ SetNumTriggersAndCapturesCall /\ UNCHANGED <<apVars, stVars>>

SpecEigerCalls == InitCalls /\ [][NextCalls]_vars

\* ------------------------------------------------ EigerDetector.stage
\* DetectorParams of a detector made by with_params: they passed the checks of
\* set_detector_parameters.
StageParams ==
    [current_energy : {1}, use_roi_mode : BOOLEAN, run_number : {1},
     exposure_time : {1}, directory : {"/test/dir/"}, prefix : {"test"},
     detector_distance : {1}, omega_start : {0}, omega_increment : {1},
     trigger_mode : TriggerModes,
     num_triggers : {MaxTriggers - 1},
     num_images_per_trigger : {MaxImages},
     detector_size_constants : {TRUE},
     beam_xy_converter : {TRUE}]

\* DetectorParams.full_filename: "{prefix}_{run_number}"
full_filename(p) == <<p.prefix, p.run_number>>
\* The file names the writer's readbacks can hold: an earlier run's, or this one's.
Filenames == {<<"test", r>> : r \in 0..1}

\* What odin.check_odin_initialised() can return.
OdinStates == {<<TRUE, "">>, <<FALSE, "Test error">>, <<FALSE, "Got an error">>}

\* detector_size_constants.det_size_pixels / roi_size_pixels (EIGER2_X_16M_SIZE)
DetSizePixels == [width |-> 4148, height |-> 4362]
RoiSizePixels == [width |-> 2068, height |-> 2162]
\* DetectorParams.get_beam_position_pixels(detector_distance): the lookup is
\* outside the model, the pair stands for its result.
get_beam_position_pixels(p) == <<<<"beam_x_pixels", p.detector_distance>>,
                                 <<"beam_y_pixels", p.detector_distance>>>>

Running == [kind |-> "running", msg |-> <<>>]

\* change_roi_mode(enable): the five sets.
change_roi_mode_writes_roi_size(enable) ==
    <<<<"cam.roi_mode", IF enable THEN 1 ELSE 0>>,
      <<"odin.file_writer.image_height", RoiSizePixels.height>>,
      <<"odin.file_writer.image_width", RoiSizePixels.width>>,
      <<"odin.file_writer.num_row_chunks", RoiSizePixels.height>>,
      <<"odin.file_writer.num_col_chunks", RoiSizePixels.width>>>>
change_roi_mode_writes(enable) ==
    LET detector_dimensions == IF enable THEN RoiSizePixels ELSE DetSizePixels IN
    <<<<"cam.roi_mode", IF enable THEN 1 ELSE 0>>,
      <<"odin.file_writer.image_height", detector_dimensions.height>>,
      <<"odin.file_writer.image_width", detector_dimensions.width>>,
      <<"odin.file_writer.num_row_chunks", detector_dimensions.height>>,
      <<"odin.file_writer.num_col_chunks", detector_dimensions.width>>>>

\* set_cam_pvs: ImageMode.MULTIPLE is 1, EXTERNAL_SERIES is 2.
set_cam_pvs_writes(p) ==
    <<<<"cam.acquire_time", p.exposure_time>>,
      <<"cam.acquire_period", p.exposure_time>>,
      <<"cam.num_exposures", 1>>,
      <<"cam.image_mode", 1>>,
      <<"cam.trigger_mode", 2>>>>

\* set_odin_pvs, after the wait on num_frames_chunks.
set_odin_pvs_writes(p) ==
    <<<<"odin.file_writer.file_path", p.directory>>,
      <<"odin.file_writer.file_name", full_filename(p)>>>>

\* set_mx_settings_pvs
set_mx_settings_pvs_writes(p) ==
    <<<<"cam.beam_center_x", get_beam_position_pixels(p)[1]>>,
      <<"cam.beam_center_y", get_beam_position_pixels(p)[2]>>,
      <<"cam.det_distance", p.detector_distance>>,
      <<"cam.omega_start", p.omega_start>>,
      <<"cam.omega_incr", p.omega_increment>>>>

\* The values set on one signal by the running call, in order.
WritesTo(signal) ==
    LET sel == SelectSeq(writes, LAMBDA w : w[1] = signal)
    IN [i \in 1..Len(sel) |-> sel[i][2]]

\* The state of a status object: one of the running call, or the one kept in
\* self.filewriters_finished.
StatusState(n) == IF n = "filewriters_finished" THEN finished_status ELSE stat[n]

\* AndStatus over the status objects named in S.
CompDone(S) == \A n \in S : StatusState(n) = "done"
CompFailed(S) == \E n \in S : StatusState(n) = "failed"

\* await_value(signal, target): the status is finished at once when the signal
\* already holds the target.
await_value(current, target) == IF current = target THEN "done" ELSE "pending"

\* Lines 222-223: odin_status = capture.set(1) & await_value(meta.ready, 1)
odin_status_capture_only == {"capture"}
odin_status == {"capture", "meta_ready"}

\* What each wait of stage() and unstage() waits on.
WaitSet(at) ==
    CASE at = "roi.wait" -> {"roi"}
      [] at = "chunks.wait" -> {"chunks"}
      [] at = "status.wait" ->
            {"threshold", "cam", "odin", "meta_file_name", "fw_id", "mx", "trig"}
      [] at = "stale.wait" -> {"stale"}
      [] at = "odin_status.wait" -> odin_status
      [] at = "acquire.wait" -> {"acquire"}
      [] at = "fan.wait" -> {"fan_ready"}
      [] at = "frames.wait" -> {"num_captured"}
      [] at = "stop.wait" -> {"stop"}
      [] at = "finished.wait" -> {"filewriters_finished"}
      [] at = "unstage_roi.wait" -> {"roi"}
      [] OTHER -> {}

\* status.wait(timeout) returns: the status finished successfully in time.
wait_returns_unfinished(at) == e_pc = at
wait_returns_on_failure(at) ==
    e_pc = at /\ \A n \in WaitSet(at) : StatusState(n) \in {"done", "failed"}
wait_returns(at) == e_pc = at /\ CompDone(WaitSet(at))

\* Lines 76-77 and 145 of stage(): the threshold, the camera settings and the
\* set of num_frames_chunks, which set_odin_pvs waits on.
ConfigureToChunks(issued, statuses) ==
    LET p == detector_params[1]
        thr == set_detector_threshold(p.current_energy, DefaultTolerance)
    IN
    /\ writes' = issued \o thr.writes \o set_cam_pvs_writes(p)
                    \o <<<<"odin.file_writer.num_frames_chunks", 1>>>>
    /\ stat' = [statuses EXCEPT
                  !["threshold"] = IF thr.writes = <<>> THEN "done" ELSE "pending",
                  !["cam"] = "pending",
                  !["chunks"] = "pending"]
    /\ cam_photon_energy' = IF thr.writes # <<>> THEN p.current_energy
                            ELSE cam_photon_energy
    /\ e_pc' = "chunks.wait"

\* Line 72: if not status_ok
odin_check_skipped(status_ok) == FALSE
odin_not_initialised(status_ok) == ~status_ok

\* Line 73: the message of the fault.
odin_fault_message(error_message) == <<"Odin not initialised: ", error_message>>

\* Line 74: if self.detector_params.use_roi_mode
roi_mode_always(p) == TRUE
roi_mode_requested(p) == p.use_roi_mode

\* stage() up to its first blocking point.
StageCall ==
    /\ e_pc = "idle"
    /\ detector_params # <<>>
    /\ n_stage < MaxStageCalls
    /\ n_stage' = n_stage + 1
    /\ call' = <<"stage">>
    /\ ret' = "none"
    /\ LET p == detector_params[1]
           cleared == <<<<"odin.nodes.clear_odin_errors", 1>>>>
       IN  IF odin_not_initialised(odin_initialised[1])
           THEN /\ e_result' = Raised("Exception", odin_fault_message(odin_initialised[2]))
                /\ writes' = cleared
                /\ stat' = NoStatuses
                /\ e_pc' = "idle"
                /\ UNCHANGED cam_photon_energy
           ELSE IF roi_mode_requested(p)
           THEN /\ e_result' = Running
                /\ writes' = cleared \o change_roi_mode_writes(TRUE)
                /\ stat' = [NoStatuses EXCEPT !["roi"] = "pending"]
                /\ e_pc' = "roi.wait"
                /\ UNCHANGED cam_photon_energy
           ELSE /\ e_result' = Running
                /\ ConfigureToChunks(cleared, NoStatuses)
    /\ UNCHANGED <<detector_params, odin_initialised, stale_params, meta_file_name,
                   fw_id, meta_ready, fan_ready, filewriters_finished,
                   finished_status>>

\* change_roi_mode: status.wait(10) returned, so the status succeeded and
\* nothing is logged; stage() goes on with lines 76-78.
RoiWaitReturns ==
    /\ wait_returns("roi.wait")
    /\ ConfigureToChunks(writes, stat)
    /\ UNCHANGED <<detector_params, call, ret, e_result, odin_initialised,
                   stale_params, meta_file_name, fw_id, meta_ready, fan_ready,
                   filewriters_finished,
                   finished_status, n_stage>>

\* Lines 154-155 of set_odin_pvs: the two await_value statuses ANDed to the
\* status of the sets.
set_odin_pvs_awaits_meta_only(p) ==
    [meta_file_name |-> await_value(meta_file_name, full_filename(p)),
     fw_id |-> "done"]
set_odin_pvs_awaits(p) ==
    [meta_file_name |-> await_value(meta_file_name, full_filename(p)),
     fw_id |-> await_value(fw_id, full_filename(p))]

\* set_odin_pvs after num_frames_chunks.set(1).wait(10), then lines 79-83.
ChunksWaitReturns ==
    /\ wait_returns("chunks.wait")
    /\ LET p == detector_params[1] IN
       /\ writes' = writes \o set_odin_pvs_writes(p) \o set_mx_settings_pvs_writes(p)
                       \o num_triggers_and_captures(p)
       /\ stat' = [stat EXCEPT
                     !["odin"] = "pending",
                     !["meta_file_name"] = set_odin_pvs_awaits(p).meta_file_name,
                     !["fw_id"] = set_odin_pvs_awaits(p).fw_id,
                     !["mx"] = "pending",
                     !["trig"] = "pending"]
    /\ e_pc' = "status.wait"
    /\ UNCHANGED <<detector_params, cam_photon_energy, call, ret, e_result,
                   odin_initialised, stale_params, meta_file_name, fw_id, meta_ready,
                   fan_ready, filewriters_finished,
                   finished_status, n_stage>>

\* wait_for_stale_parameters: await_value(self.stale_params, 0)
stale_parameters_not_awaited == "done"
stale_parameters_status == await_value(stale_params, 0)

\* status.wait(STALE_PARAMS_TIMEOUT) returned; arm_detector starts:
\* wait_for_stale_parameters.
StatusWaitReturns ==
    /\ wait_returns("status.wait")
    /\ stat' = [stat EXCEPT !["stale"] = stale_parameters_status]
    /\ e_pc' = "stale.wait"
    /\ UNCHANGED <<detector_params, cam_photon_energy, call, writes, ret, e_result,
                   odin_initialised, stale_params, meta_file_name, fw_id, meta_ready,
                   fan_ready, filewriters_finished,
                   finished_status, n_stage>>

\* Lines 220-224: forward_bit_depth_to_filewriter (a 16 bit image), capture.set(1),
\* await_value(meta.ready, 1).
StaleWaitReturns ==
    /\ wait_returns("stale.wait")
    /\ writes' = writes \o <<<<"odin.file_writer.data_type", 16>>,
                             <<"odin.file_writer.capture", 1>>>>
    /\ stat' = [stat EXCEPT !["capture"] = "pending",
                            !["meta_ready"] = await_value(meta_ready, 1)]
    /\ e_pc' = "odin_status.wait"
    /\ UNCHANGED <<detector_params, cam_photon_energy, call, ret, e_result,
                   odin_initialised, stale_params, meta_file_name, fw_id, meta_ready,
                   fan_ready, filewriters_finished,
                   finished_status, n_stage>>

\* Line 227: cam.acquire.set(1)
OdinStatusWaitReturns ==
    /\ wait_returns("odin_status.wait")
    /\ writes' = writes \o <<<<"cam.acquire", 1>>>>
    /\ stat' = [stat EXCEPT !["acquire"] = "pending"]
    /\ e_pc' = "acquire.wait"
    /\ UNCHANGED <<detector_params, cam_photon_energy, call, ret, e_result,
                   odin_initialised, stale_params, meta_file_name, fw_id, meta_ready,
                   fan_ready, filewriters_finished,
                   finished_status, n_stage>>

\* Lines 229-231: create_finished_status, await_value(fan.ready, 1)
AcquireWaitReturns ==
    /\ wait_returns("acquire.wait")
    /\ filewriters_finished' = n_stage
    /\ finished_status' = "pending"
    /\ stat' = [stat EXCEPT !["fan_ready"] = await_value(fan_ready, 1)]
    /\ e_pc' = "fan.wait"
    /\ UNCHANGED <<detector_params, cam_photon_energy, call, writes, ret, e_result,
                   odin_initialised, stale_params, meta_file_name, fw_id, meta_ready,
                   fan_ready, n_stage>>

\* stage() returns.
FanWaitReturns ==
    /\ wait_returns("fan.wait")
    /\ e_pc' = "idle"
    /\ e_result' = Returned
    /\ UNCHANGED <<detector_params, cam_photon_energy, call, writes, ret,
                   odin_initialised, stat, stale_params, meta_file_name, fw_id,
                   meta_ready, fan_ready, filewriters_finished,
                   finished_status, n_stage>>

\* Lines 98-100 of unstage(): start_timeout.put(1), then the wait on
\* self.filewriters_finished, an attribute only arm_detector creates.
SetStartTimeout(issued, statuses) ==
    /\ writes' = issued \o <<<<"odin.file_writer.start_timeout", 1>>>>
    /\ stat' = statuses
    /\ IF filewriters_finished = 0
       THEN /\ e_result' = Raised("AttributeError", <<"filewriters_finished">>)
            /\ e_pc' = "idle"
       ELSE /\ e_result' = Running
            /\ e_pc' = "finished.wait"

\* Line 89: if self.detector_params.trigger_mode == TriggerMode.FREE_RUN
in_any_mode(trigger_mode) == TRUE
in_free_run_mode(trigger_mode) == trigger_mode = "FREE_RUN"

\* unstage() up to its first blocking point. In FREE_RUN it awaits
\* num_captured reaching full_number_of_images, a value the counter may
\* already hold.
UnstageCall ==
    /\ e_pc = "idle"
    /\ detector_params # <<>>
    /\ call' = <<"unstage">>
    /\ ret' = "none"
    /\ LET p == detector_params[1] IN
       IF in_free_run_mode(p.trigger_mode)
       THEN /\ \E num_captured \in {0, full_number_of_images(p)} :
                  stat' = [NoStatuses EXCEPT !["num_captured"] =
                              await_value(num_captured, full_number_of_images(p))]
            /\ writes' = <<>>
            /\ e_result' = Running
            /\ e_pc' = "frames.wait"
       ELSE SetStartTimeout(<<>>, NoStatuses)
    /\ UNCHANGED <<detector_params, cam_photon_energy, odin_initialised, stale_params,
                   meta_file_name, fw_id, meta_ready, fan_ready, filewriters_finished,
                   finished_status, n_stage>>

\* Line 97: all frames are captured; odin.stop().wait(5)
FramesWaitReturns ==
    /\ wait_returns("frames.wait")
    /\ writes' = writes \o <<<<"odin.stop", 1>>>>
    /\ stat' = [stat EXCEPT !["stop"] = "pending"]
    /\ e_pc' = "stop.wait"
    /\ UNCHANGED <<call, ret, e_result>>
    /\ UNCHANGED <<detector_params, cam_photon_energy, odin_initialised, stale_params,
                   meta_file_name, fw_id, meta_ready, fan_ready, filewriters_finished,
                   finished_status, n_stage>>

\* odin.stop().wait(5) returned.
StopWaitReturns ==
    /\ wait_returns("stop.wait")
    /\ SetStartTimeout(writes, stat)
    /\ UNCHANGED <<call, ret>>
    /\ UNCHANGED <<detector_params, cam_photon_energy, odin_initialised, stale_params,
                   meta_file_name, fw_id, meta_ready, fan_ready, filewriters_finished,
                   finished_status, n_stage>>

\* Lines 102-104: disarm_detector, check_odin_state (healthy or not),
\* disable_roi_mode up to the wait of change_roi_mode.
FinishedWaitReturns ==
    /\ wait_returns("finished.wait")
    /\ \E status_ok \in BOOLEAN :
          writes' = writes \o <<<<"cam.acquire", 0>>,
                                 <<"odin.check_odin_state", IF status_ok THEN 1 ELSE 0>>>>
                          \o change_roi_mode_writes(FALSE)
    /\ stat' = [stat EXCEPT !["roi"] = "pending"]
    /\ e_pc' = "unstage_roi.wait"
    /\ UNCHANGED <<call, ret, e_result>>
    /\ UNCHANGED <<detector_params, cam_photon_energy, odin_initialised, stale_params,
                   meta_file_name, fw_id, meta_ready, fan_ready, filewriters_finished,
                   finished_status, n_stage>>

\* What check_odin_state() returned to the running unstage().
status_ok == WritesTo("odin.check_odin_state") = <<1>>

\* Line 105: return status_ok
unstage_returns_true(ok) == "True"
unstage_return_value(ok) == IF ok THEN "True" ELSE "False"

\* change_roi_mode(False): status.wait(10) returned; unstage() returns.
UnstageRoiWaitReturns ==
    /\ wait_returns("unstage_roi.wait")
    /\ ret' = unstage_return_value(status_ok)
    /\ e_result' = Returned
    /\ e_pc' = "idle"
    /\ UNCHANGED <<call, writes, stat>>
    /\ UNCHANGED <<detector_params, cam_photon_energy, odin_initialised, stale_params,
                   meta_file_name, fw_id, meta_ready, fan_ready, filewriters_finished,
                   finished_status, n_stage>>

\* Any wait of stage() or unstage() raises: the status failed, or it is still pending when
\* the timeout of the wait expires. The exception leaves the call.
StageWaitRaises ==
    /\ e_pc # "idle"
    /\ ~CompDone(WaitSet(e_pc))
    /\ e_result' = IF CompFailed(WaitSet(e_pc))
                   THEN Raised("StatusFailed", <<e_pc>>)
                   ELSE Raised("WaitTimeoutError", <<e_pc>>)
    /\ e_pc' = "idle"
    /\ UNCHANGED <<detector_params, cam_photon_energy, call, writes, ret,
                   odin_initialised, stat, stale_params, meta_file_name, fw_id,
                   meta_ready, fan_ready, filewriters_finished,
                   finished_status, n_stage>>

\* The hardware acknowledges the sets behind a status, or refuses them.
SetFinishes(n, outcome) ==
    /\ e_pc # "idle"
    /\ stat[n] = "pending"
    /\ stat' = [stat EXCEPT ![n] = outcome]
    /\ UNCHANGED <<detector_params, cam_photon_energy, call, writes, ret, e_result,
                   e_pc, odin_initialised, stale_params, meta_file_name, fw_id,
                   meta_ready, fan_ready, filewriters_finished,
                   finished_status, n_stage>>

\* The metadata writer / the file writer echoes the file name that was set.
OdinEchoesFileName(readback) ==
    /\ e_pc # "idle"
    /\ stat["odin"] # "none"
    /\ LET name == full_filename(detector_params[1]) IN
       /\ IF readback = "meta_file_name"
          THEN meta_file_name # name /\ meta_file_name' = name /\ UNCHANGED fw_id
          ELSE fw_id # name /\ fw_id' = name /\ UNCHANGED meta_file_name
       /\ stat' = [stat EXCEPT ![readback] = IF @ = "pending" THEN "done" ELSE @]
    /\ UNCHANGED <<detector_params, cam_photon_energy, call, writes, ret, e_result,
                   e_pc, odin_initialised, stale_params, meta_ready, fan_ready,
                   filewriters_finished,
                   finished_status, n_stage>>

\* The camera raises its stale-parameters flag after a set, and clears it.
StaleParamsChanges ==
    /\ IF stale_params = 0
       THEN /\ e_pc \in {"chunks.wait", "status.wait", "stale.wait"}
            /\ stale_params' = 1
            /\ UNCHANGED stat
       ELSE /\ stale_params' = 0
            /\ stat' = [stat EXCEPT !["stale"] = IF @ = "pending" THEN "done" ELSE @]
    /\ UNCHANGED <<detector_params, cam_photon_energy, call, writes, ret, e_result,
                   e_pc, odin_initialised, meta_file_name, fw_id, meta_ready, fan_ready,
                   filewriters_finished,
                   finished_status, n_stage>>

\* The metadata writer reports ready once capture was started.
MetaBecomesReady ==
    /\ stat["capture"] # "none"
    /\ meta_ready = 0
    /\ meta_ready' = 1
    /\ stat' = [stat EXCEPT !["meta_ready"] = IF @ = "pending" THEN "done" ELSE @]
    /\ UNCHANGED <<detector_params, cam_photon_energy, call, writes, ret, e_result,
                   e_pc, odin_initialised, stale_params, meta_file_name, fw_id,
                   fan_ready, filewriters_finished,
                   finished_status, n_stage>>

\* The fan reports ready once acquisition was started.
FanBecomesReady ==
    /\ stat["acquire"] # "none"
    /\ fan_ready = 0
    /\ fan_ready' = 1
    /\ stat' = [stat EXCEPT !["fan_ready"] = IF @ = "pending" THEN "done" ELSE @]
    /\ UNCHANGED <<detector_params, cam_photon_energy, call, writes, ret, e_result,
                   e_pc, odin_initialised, stale_params, meta_file_name, fw_id,
                   meta_ready, filewriters_finished,
                   finished_status, n_stage>>

\* The writer's frame counter reaches the number of images awaited.
OdinCapturesAllFrames ==
    /\ e_pc # "idle"
    /\ stat["num_captured"] = "pending"
    /\ stat' = [stat EXCEPT !["num_captured"] = "done"]
    /\ UNCHANGED <<call, writes, ret, e_result, e_pc>>
    /\ UNCHANGED <<detector_params, cam_photon_energy, odin_initialised, stale_params,
                   meta_file_name, fw_id, meta_ready, fan_ready, filewriters_finished,
                   finished_status, n_stage>>

\* Every file-writer node reports that it has finished writing.
FilewritersFinish ==
    /\ finished_status = "pending"
    /\ finished_status' = "done"
    /\ UNCHANGED <<detector_params, cam_photon_energy, call, writes, ret, e_result,
                   e_pc, odin_initialised, stat, stale_params, meta_file_name, fw_id,
                   meta_ready, fan_ready, filewriters_finished, n_stage>>

\* The writer changes between initialised and not, between stage() calls.
OdinInitialisationChanges(to) ==
    /\ e_pc = "idle"
    /\ odin_initialised # to
    /\ odin_initialised' = to
    /\ UNCHANGED <<detector_params, cam_photon_energy, call, writes, ret, e_result,
                   e_pc, stat, stale_params, meta_file_name, fw_id, meta_ready,
                   fan_ready, filewriters_finished,
                   finished_status, n_stage>>

\* A detector made by with_params, its writer in any state.
InitEiger ==
    /\ ApertureAtRest
    /\ detector_params \in {<<p>> : p \in StageParams}
    /\ cam_photon_energy \in Energies
    /\ call = <<>>
    /\ writes = <<>>
    /\ ret = "none"
    /\ e_result = NoResult
    /\ e_pc = "idle"
    /\ odin_initialised \in OdinStates
    /\ stat = NoStatuses
    /\ stale_params = 0
    /\ meta_file_name \in Filenames
    /\ fw_id \in Filenames
    /\ meta_ready = 0
    /\ fan_ready = 0
    /\ filewriters_finished = 0
    /\ finished_status = "none"
    /\ n_stage = 0

NextEiger ==
    \/ StageCall /\ UNCHANGED apVars
    \/ RoiWaitReturns /\ UNCHANGED apVars
    \/ ChunksWaitReturns /\ UNCHANGED apVars
    \/ StatusWaitReturns /\ UNCHANGED apVars
    \/ StaleWaitReturns /\ UNCHANGED apVars
    \/ OdinStatusWaitReturns /\ UNCHANGED apVars
    \/ AcquireWaitReturns /\ UNCHANGED apVars
    \/ FanWaitReturns /\ UNCHANGED apVars
    \/ UnstageCall /\ UNCHANGED apVars
    \/ FramesWaitReturns /\ UNCHANGED apVars
    \/ StopWaitReturns /\ UNCHANGED apVars
    \/ FinishedWaitReturns /\ UNCHANGED apVars
    \/ UnstageRoiWaitReturns /\ UNCHANGED apVars
    \/ StageWaitRaises /\ UNCHANGED apVars
    \/ \E n \in SetStatuses, outcome \in {"done", "failed"} :
          SetFinishes(n, outcome) /\ UNCHANGED apVars
    \/ \E readback \in {"meta_file_name", "fw_id"} :
          OdinEchoesFileName(readback) /\ UNCHANGED apVars
    \/ StaleParamsChanges /\ UNCHANGED apVars
    \/ MetaBecomesReady /\ UNCHANGED apVars
    \/ FanBecomesReady /\ UNCHANGED apVars
    \/ OdinCapturesAllFrames /\ UNCHANGED apVars
    \/ FilewritersFinish /\ UNCHANGED apVars
    \/ \E to \in OdinStates : OdinInitialisationChanges(to) /\ UNCHANGED apVars

SpecEiger == InitEiger /\ [][NextEiger]_vars

\* ------------------------------------------------------- DetectorParams
\* A directory is the sequence of its characters; "/" is the separator.
DirChars == {"t", "d", "/"}
Directories == UNION {[1..n -> DirChars] : n \in 0..MaxDirLen}

\* str.endswith("/")
EndsWithSeparator(directory) ==
    directory # <<>> /\ directory[Len(directory)] = "/"

\* The normalisation of DetectorParams.directory: a separator is appended
\* when the directory does not end with one.
normalise_directory_always_appends(directory) == directory \o <<"/">>
normalise_directory(directory) ==
    IF EndsWithSeparator(directory) THEN directory ELSE directory \o <<"/">>

\* DetectorParams(100, 1.0, directory, "test", 0, ...): the object built.
create_detector_params_with_directory(directory) ==
    [current_energy |-> 100, exposure_time |-> 1,
     directory |-> normalise_directory(directory),
     prefix |-> "test", run_number |-> 0]

DetectorParamsCall(directory) ==
    /\ call' = <<"DetectorParams", directory>>
    /\ ret' = create_detector_params_with_directory(directory)
    /\ e_result' = Returned
    /\ UNCHANGED <<detector_params, cam_photon_energy, writes>>

\* No call has been made.
InitParams ==
    /\ ApertureAtRest
    /\ EigerAtRest

\* Parameters are built from any directory, or from the directory of the
\* parameters built last.
NextParams ==
    \/ \E directory \in Directories :
          DetectorParamsCall(directory) /\ UNCHANGED <<apVars, stVars>>
    \/ call # <<>> /\ DetectorParamsCall(ret.directory) /\ UNCHANGED <<apVars, stVars>>

SpecParams == InitParams /\ [][NextParams]_vars

\* -------------------------------------------- EigerDetector: properties

\* A step that is a call of stage().
StageCallStep == n_stage' = n_stage + 1
\* The signals stage() configures and arms with.
ClearOnly == <<<<"odin.nodes.clear_odin_errors", 1>>>>

\* C7: stage() called while the writer reports not-initialised raises at once
\* a fault whose message ends with the reason the writer reported, having
\* issued nothing but the clearing of the writer's errors: no ROI, threshold,
\* camera, writer-path, geometry or trigger-count set, no status object
\* created, arming not started.
C7_NotInitialisedAbortsStage ==
    [][(StageCallStep /\ ~odin_initialised[1]) =>
          /\ e_result'.kind = "Exception"
          /\ e_result'.msg = <<"Odin not initialised: ", odin_initialised[2]>>
          /\ e_pc' = "idle"
          /\ writes' = ClearOnly
          /\ stat' = NoStatuses
          /\ UNCHANGED <<cam_photon_energy, filewriters_finished,
                   finished_status, detector_params>>]_vars
\* ROI mode was asked for, and the photon energy is off by more than the tolerance.
C7_Witness ==
    /\ call = <<"stage">>
    /\ e_pc = "idle"
    /\ e_result.kind = "Exception"
    /\ e_result.msg = <<"Odin not initialised: ", "Test error">>
    /\ odin_initialised = <<FALSE, "Test error">>
    /\ detector_params[1].use_roi_mode
    /\ Abs(cam_photon_energy - detector_params[1].current_energy) > DefaultTolerance
    /\ writes = ClearOnly

\* C8: in FREE_RUN mode set_num_triggers_and_captures sets the camera trigger
\* count to 1,000,000 and the writer capture count to 0, each exactly once,
\* whatever num_triggers and num_images_per_trigger are.
C8_FreeRunCounts ==
    (call = <<"set_num_triggers_and_captures">> /\ detector_params # <<>>
        /\ detector_params[1].trigger_mode = "FREE_RUN") =>
        /\ WritesTo("cam.num_triggers") = <<1000000>>
        /\ WritesTo("odin.file_writer.num_capture") = <<0>>
        /\ e_result.kind = "returned"
C8_Witness ==
    /\ call = <<"set_num_triggers_and_captures">>
    /\ detector_params # <<>>
    /\ detector_params[1].trigger_mode = "FREE_RUN"
    /\ detector_params[1].num_triggers = 3
    /\ detector_params[1].num_images_per_trigger = 2
    /\ WritesTo("cam.num_triggers") = <<1000000>>

\* C9: in SET_FRAMES mode set_num_triggers_and_captures sets the camera trigger
\* count to num_triggers and the writer capture count to
\* num_triggers * num_images_per_trigger, each exactly once.
C9_SetFramesCounts ==
    (call = <<"set_num_triggers_and_captures">> /\ detector_params # <<>>
        /\ detector_params[1].trigger_mode = "SET_FRAMES") =>
        /\ WritesTo("cam.num_triggers") = <<detector_params[1].num_triggers>>
        /\ WritesTo("odin.file_writer.num_capture") =
              <<detector_params[1].num_triggers * detector_params[1].num_images_per_trigger>>
        /\ e_result.kind = "returned"
\* 3 triggers of 3 images: trigger count 3, capture count 9.
C9_Witness ==
    /\ call = <<"set_num_triggers_and_captures">>
    /\ detector_params # <<>>
    /\ detector_params[1].trigger_mode = "SET_FRAMES"
    /\ detector_params[1].num_triggers = 3
    /\ detector_params[1].num_images_per_trigger = 3
    /\ WritesTo("cam.num_triggers") = <<3>>
    /\ WritesTo("odin.file_writer.num_capture") = <<9>>

\* C10: set_detector_threshold(energy, tolerance), with the photon energy it
\* read: within the tolerance (boundary included) it sets nothing and returns
\* an already finished status; beyond it, it sets cam.photon_energy once, to
\* the requested energy, and returns the status of that set.
C10_ThresholdWithinTolerance ==
    (Len(call) = 4 /\ call[1] = "set_detector_threshold") =>
        LET energy == call[2]
            tolerance == call[3]
            current_energy == call[4]
        IN  IF Abs(current_energy - energy) <= tolerance
            THEN /\ writes = <<>>
                 /\ ret = "Status.set_finished"
                 /\ cam_photon_energy = current_energy
            ELSE /\ writes = <<<<"cam.photon_energy", energy>>>>
                 /\ ret = "cam.photon_energy.set"
\* On the boundary of the default tolerance: nothing is set.
C10_Witness ==
    /\ Len(call) = 4
    /\ call[1] = "set_detector_threshold"
    /\ call[3] = DefaultTolerance
    /\ Abs(call[4] - call[2]) = DefaultTolerance
    /\ writes = <<>>
    /\ ret = "Status.set_finished"

\* The number of lines of the message "\n".join(errors) of a raised fault.
MessageLines(r) == Len(r.msg)
\* The checks of set_detector_parameters that a parameter object violates.
MissingCount(p) ==
    (IF p.detector_size_constants THEN 0 ELSE 1) + (IF p.beam_xy_converter THEN 0 ELSE 1)

\* C11: set_detector_parameters reports every violation at once: with both
\* the detector size constants and the beam converter missing it raises one
\* fault of exactly two lines, with exactly one of them missing a fault of
\* one line, with neither missing no fault, and with no parameters at all
\* (None) a fault of exactly one line.
C11_ErrorsAggregated ==
    (Len(call) = 2 /\ call[1] = "set_detector_parameters") =>
        IF call[2] = <<>>
        THEN e_result.kind = "Exception" /\ MessageLines(e_result) = 1
        ELSE IF MissingCount(call[2][1]) = 0
        THEN e_result = Returned
        ELSE /\ e_result.kind = "Exception"
             /\ MessageLines(e_result) = MissingCount(call[2][1])
\* Both missing: a fault of two lines.
C11_Witness ==
    /\ Len(call) = 2
    /\ call[1] = "set_detector_parameters"
    /\ call[2] # <<>>
    /\ ~call[2][1].detector_size_constants
    /\ ~call[2][1].beam_xy_converter
    /\ e_result.kind = "Exception"
    /\ e_result.msg = <<"Detector Size must be set", "Beam converter must be set">>

\* A step that is a call of set_detector_parameters raising a fault.
SetDetectorParametersRaises ==
    /\ Len(call') = 2
    /\ call'[1] = "set_detector_parameters"
    /\ e_result'.kind = "Exception"

\* C12: a call of set_detector_parameters that raises has no side effect: it
\* writes nothing to the hardware and leaves the stored detector_params as
\* they were before the call.
C12_RaisingCallLeavesParams ==
    [][SetDetectorParametersRaises =>
          (writes' = <<>> /\ detector_params' = detector_params)]_vars

\* A step in which change_roi_mode's status.wait(10) ends although the five
\* sets have failed or are still pending.
RoiWaitEndsUnfinished ==
    /\ e_pc = "roi.wait"
    /\ ~CompDone(WaitSet("roi.wait"))
    /\ e_pc' # e_pc

\* C13: the switch to ROI mode is a soft failure: when the composite of the
\* five ROI sets has failed, or is still pending when the wait of 10 s ends,
\* no fault reaches the caller of stage() and staging goes on with the
\* threshold and the camera settings.
C13_RoiFailureIsSoft ==
    [][RoiWaitEndsUnfinished =>
          (e_result' = Running /\ e_pc' = "chunks.wait")]_vars

\* The results of check_odin_state() in the running unstage() call (1: healthy).
HealthQueries == WritesTo("odin.check_odin_state")
\* The faults of a wait that did not complete, or could not start.
WaitFaults == {"StatusFailed", "WaitTimeoutError", "AttributeError"}

\* C14: unstage() reports the health of the writer as a boolean and does not
\* raise on it: a call that has ended either returned, and then it made one
\* health query and returned its result, or it ended in the fault of one of
\* its waits; an unhealthy writer gives the return value False, not a fault.
C14_UnstageReturnsHealth ==
    (call = <<"unstage">> /\ e_pc = "idle") =>
        \/ /\ e_result = Returned
           /\ Len(HealthQueries) = 1
           /\ ret = (IF HealthQueries[1] = 1 THEN "True" ELSE "False")
        \/ /\ e_result.kind \in WaitFaults
           /\ ret = "none"
\* unstage() has returned False: the writer was unhealthy.
C14_Witness ==
    /\ call = <<"unstage">>
    /\ e_pc = "idle"
    /\ e_result = Returned
    /\ HealthQueries = <<0>>
    /\ ret = "False"

\* The sets that restore the geometry of the full detector.
RoiDisableWrites ==
    <<<<"cam.roi_mode", 0>>,
      <<"odin.file_writer.image_height", DetSizePixels.height>>,
      <<"odin.file_writer.image_width", DetSizePixels.width>>,
      <<"odin.file_writer.num_row_chunks", DetSizePixels.height>>,
      <<"odin.file_writer.num_col_chunks", DetSizePixels.width>>>>

\* C15: unstage() restores the non-ROI geometry whatever the health of the
\* writer: once the health query is made, healthy or not, the five ROI-disable
\* sets (ROI flag 0, height, width and chunking of the full detector) follow
\* it at once, and an unstage() that returned has made the query and them.
C15_RoiRestoredAfterHealthQuery ==
    (call = <<"unstage">>) =>
        /\ \A i \in 1..Len(writes) :
              writes[i][1] = "odin.check_odin_state" =>
                  /\ Len(writes) = i + 5
                  /\ SubSeq(writes, i + 1, i + 5) = RoiDisableWrites
        /\ e_result = Returned => Len(HealthQueries) = 1
\* unstage() has returned with the writer unhealthy and the geometry restored.
C15_Witness ==
    /\ call = <<"unstage">>
    /\ e_result = Returned
    /\ HealthQueries = <<0>>
    /\ SubSeq(writes, Len(writes) - 4, Len(writes)) = RoiDisableWrites

\* C16: every blocking wait made by stage(), unstage() and the safe move has
\* a deadline: a call blocked in a wait can always go on by itself, returning
\* when the awaited operation has finished and raising the timeout (or the
\* failure) when it has not, whatever the hardware does.
C16_EveryWaitBounded ==
    /\ pc # "idle" => ENABLED (WaitReturns \/ WaitRaises)
    /\ e_pc # "idle" => (CompDone(WaitSet(e_pc)) \/ ENABLED StageWaitRaises)

\* The statuses ANDed into the status set_odin_pvs returns.
OdinPvsStatus == {"odin", "meta_file_name", "fw_id"}
\* "{prefix}_{run_number}" of the stored parameters.
ExpectedFilename == <<detector_params[1].prefix, detector_params[1].run_number>>
\* Where stage() is once status.wait(60) has returned.
PastStatusWait == {"stale.wait", "odin_status.wait", "acquire.wait", "fan.wait"}

\* C17: the status returned by set_odin_pvs is not finished successfully, and
\* stage() does not get past the wait on it, until both the meta file-name
\* readback and the file-writer id readback hold the full file name
\* {prefix}_{run_number}; while either holds another (stale) name the step is
\* not complete.
C17_FilenameEchoedBeforeComplete ==
    (call = <<"stage">> /\ stat["odin"] # "none") =>
        /\ CompDone(OdinPvsStatus) =>
              (meta_file_name = ExpectedFilename /\ fw_id = ExpectedFilename)
        /\ e_pc \in PastStatusWait => CompDone(OdinPvsStatus)
\* Both readbacks hold the name and stage() has gone on to arming.
C17_Witness ==
    /\ call = <<"stage">>
    /\ CompDone(OdinPvsStatus)
    /\ meta_file_name = ExpectedFilename
    /\ fw_id = ExpectedFilename
    /\ e_pc = "stale.wait"

\* The directory the last DetectorParams call was given, and the one it stored.
GivenDirectory == call[2]
StoredDirectory == ret.directory
\* The number of separators a directory ends with.
RECURSIVE TrailingSeparators(_)
TrailingSeparators(directory) ==
    IF EndsWithSeparator(directory)
    THEN 1 + TrailingSeparators(SubSeq(directory, 1, Len(directory) - 1))
    ELSE 0

\* The directory normalisation appends one separator to a directory that
\* does not end with one, leaves unchanged a directory that does, and
\* normalising the stored directory again changes nothing.
NormalisationRule ==
    /\ ~EndsWithSeparator(GivenDirectory) => StoredDirectory = GivenDirectory \o <<"/">>
    /\ EndsWithSeparator(GivenDirectory) => StoredDirectory = GivenDirectory
    /\ normalise_directory(StoredDirectory) = StoredDirectory

StatusWaitEndsUnfinished ==
    /\ e_pc = "status.wait"
    /\ ~CompDone(WaitSet("status.wait"))
    /\ e_pc' # e_pc
\* No signal has been set twice by the running call.
NoSignalSetTwice ==
    \A i, j \in 1..Len(writes) : i # j => writes[i][1] # writes[j][1]

\* C19: when the AND of the configuration steps fails, or is unfinished when
\* the wait of 60 s ends, stage() ends there with the fault: nothing of
\* arming has been or is issued (no capture start, no acquire), no set is
\* issued again, and nothing is rolled back (no disarm, no ROI restore): the
\* step adds nothing to what the call has written.
C19_ConfigureFailureSurfaces ==
    [][StatusWaitEndsUnfinished =>
          /\ e_pc' = "idle"
          /\ e_result'.kind \in {"StatusFailed", "WaitTimeoutError"}
          /\ e_result'.msg = <<"status.wait">>
          /\ writes' = writes
          /\ WritesTo("odin.file_writer.capture") = <<>>
          /\ WritesTo("cam.acquire") = <<>>
          /\ \A i \in 1..Len(writes) : writes[i] # <<"cam.roi_mode", 0>>
          /\ NoSignalSetTwice]_vars
\* stage() has raised the timeout of status.wait(60), the trigger counts set.
C19_Witness ==
    /\ call = <<"stage">>
    /\ e_pc = "idle"
    /\ e_result = Raised("WaitTimeoutError", <<"status.wait">>)
    /\ WritesTo("cam.num_images") # <<>>
    /\ WritesTo("odin.file_writer.capture") = <<>>

\* ------------------------------------------- safe move: the preset move
\* Each of the five axes has been commanded exactly once, with its value of req.
EachAxisCommandedOnce ==
    /\ Len(cmds) = 5
    /\ \A k \in 1..5 : \E i \in 1..5 : cmds[i] = <<Axes[k], req[k]>>
AllFiveDone == \A a \in AxisNames : st[a] = "done"
AllFiveFinished == \A a \in AxisNames : st[a] \in {"done", "failed"}
\* A call of set() with a preset, the aperture z at rest in the preset's plane.
PresetCallStep ==
    /\ CallStep
    /\ ValidRequest(req')
    /\ ap_z_done_move
    /\ setpoint["ap_z"] = req'[3]

\* C20 read strictly: set(preset), the aperture z at rest in the preset's
\* plane, never raises, ends having commanded each of the five axes exactly
\* once with the preset's value, and returns a composite that succeeds iff
\* the five moves succeed and is finished only when all five are finished.
C20_PresetMoveNeverFaults ==
    (ValidRequest(req) /\ ReachedMove) =>
        /\ result \in {"running", "AndStatus"}
        /\ result = "AndStatus" =>
              /\ EachAxisCommandedOnce
              /\ FinalStatusSuccess <=> AllFiveDone
              /\ FinalStatusDone => AllFiveFinished

\* C20: set(preset), the aperture z at rest in the preset's plane, raises no
\* fault at the call and starts the first phase; it raises only when a move
\* of the first phase fails; when the first phase succeeds it returns, having
\* commanded each of the five axes exactly once with the preset's value, a
\* composite that succeeds iff the five moves succeed, and that is finished
\* when they have all succeeded or as soon as one of them has failed.
C20_PresetMoveCommandsAllAxes ==
    /\ [][PresetCallStep => (result' = "running" /\ current_ap_y' # -1
                               /\ cmds' # <<>>)]_vars
    /\ []((ValidRequest(req) /\ ReachedMove) =>
            /\ result \in {"running", "AndStatus", "StatusFailed"}
            /\ result = "StatusFailed" =>
                  /\ \E a \in Commanded : st[a] = "failed"
                  /\ Commanded \in {ScatterguardAxes, ApertureAxes}
            /\ result = "AndStatus" =>
                  /\ EachAxisCommandedOnce
                  /\ FinalStatusSuccess <=> AllFiveDone
                  /\ FinalStatusDone <=>
                        (AllFiveDone \/ \E a \in AxisNames : st[a] = "failed"))
\* set(MEDIUM) of the first table has returned and its five moves succeeded.
C20_Witness ==
    /\ ValidRequest(req)
    /\ req = TableA.MEDIUM
    /\ result = "AndStatus"
    /\ EachAxisCommandedOnce
    /\ FinalStatusSuccess
    /\ AllFiveDone

\* ------------------------------------------------ stage(): the arming
\* The statuses of the configuration steps ANDed by stage().
ConfigureStatuses == {"threshold", "cam", "odin", "meta_file_name", "fw_id", "mx", "trig"}
\* The signals arm_detector sets after the stale-parameters wait.
ArmingSignals == {"odin.file_writer.data_type", "odin.file_writer.capture", "cam.acquire"}
ArmingIssued == \E i \in 1..Len(writes) : writes[i][1] \in ArmingSignals

\* C21: stage() issues nothing of arming (bit depth, capture start, acquire)
\* until the AND of the configuration statuses has finished and, after that,
\* the stale-parameters flag has been read 0: the status awaiting the flag is
\* created only once the AND is done and completes only in a state where the
\* flag is 0, so a flag that went high before the last set was acknowledged
\* holds stage() back until it returns to 0.
C21_NoArmingBeforeStaleClear ==
    /\ []((call = <<"stage">> /\ ArmingIssued) =>
            (CompDone(ConfigureStatuses) /\ stat["stale"] = "done"))
    /\ []((call = <<"stage">> /\ e_pc = "stale.wait" /\ stat["stale"] = "pending") =>
            (stale_params = 1 /\ ~ArmingIssued))
    /\ [][(stat["stale"] # "done" /\ stat'["stale"] = "done") =>
            (stale_params' = 0 /\ CompDone(ConfigureStatuses))]_vars
\* The flag went high and stayed high while the last set was acknowledged:
\* stage() is held in the stale-parameters wait, nothing of arming issued.
C21_Witness ==
    /\ call = <<"stage">>
    /\ e_pc = "stale.wait"
    /\ CompDone(ConfigureStatuses)
    /\ stat["stale"] = "pending"
    /\ stale_params = 1
    /\ ~ArmingIssued

\* C22: arming order. The acquire command is issued only once the capture
\* start has completed and the metadata writer reads ready (1); the
\* writer-finished status of this stage() is created only once the acquire
\* command has completed; the fan readiness is awaited after that, last, and
\* stage() returns only with fan.ready reading 1.
C22_ArmingOrder ==
    (call = <<"stage">>) =>
        /\ WritesTo("cam.acquire") # <<>> =>
              /\ WritesTo("cam.acquire") = <<1>>
              /\ WritesTo("odin.file_writer.capture") = <<1>>
              /\ stat["capture"] = "done"
              /\ stat["meta_ready"] = "done"
              /\ meta_ready = 1
        /\ filewriters_finished = n_stage => stat["acquire"] = "done"
        /\ stat["fan_ready"] # "none" => filewriters_finished = n_stage
        /\ e_result = Returned =>
              /\ stat["fan_ready"] = "done"
              /\ fan_ready = 1
              /\ filewriters_finished = n_stage
\* stage() has returned: armed, the fan ready.
C22_Witness ==
    /\ call = <<"stage">>
    /\ e_result = Returned
    /\ WritesTo("cam.acquire") = <<1>>
    /\ fan_ready = 1
    /\ filewriters_finished = n_stage

\* ------------------------------------------------ unstage(): step order
\* In the log of the running call every operation on a comes before every
\* operation on b.
Before(a, b) ==
    \A i, j \in 1..Len(writes) : (writes[i][1] = a /\ writes[j][1] = b) => i < j

\* C23: step order of unstage(). In FREE_RUN the writer is stopped only once
\* the frame counter has reached the total awaited, in SET_FRAMES it is not
\* stopped at all; in both modes start_timeout is put to 1 before the wait on
\* the writer-finished status, the camera is disarmed (acquire = 0) only once
\* that status has resolved, and the health query comes right after the
\* disarm.
C23_UnstageOrder ==
    (call = <<"unstage">>) =>
        /\ detector_params[1].trigger_mode = "SET_FRAMES" =>
              (WritesTo("odin.stop") = <<>> /\ stat["num_captured"] = "none")
        /\ WritesTo("odin.stop") # <<>> =>
              /\ detector_params[1].trigger_mode = "FREE_RUN"
              /\ WritesTo("odin.stop") = <<1>>
              /\ stat["num_captured"] = "done"
              /\ Before("odin.stop", "odin.file_writer.start_timeout")
        /\ e_pc = "finished.wait" =>
              (WritesTo("odin.file_writer.start_timeout") = <<1>>
                  /\ WritesTo("cam.acquire") = <<>>)
        /\ WritesTo("cam.acquire") # <<>> =>
              /\ WritesTo("cam.acquire") = <<0>>
              /\ WritesTo("odin.file_writer.start_timeout") = <<1>>
              /\ Before("odin.file_writer.start_timeout", "cam.acquire")
              /\ finished_status = "done"
              /\ \A i \in 1..Len(writes) : writes[i][1] = "cam.acquire" =>
                    (i < Len(writes) /\ writes[i + 1][1] = "odin.check_odin_state")
        /\ Len(HealthQueries) > 0 => Len(WritesTo("cam.acquire")) = 1
\* A FREE_RUN unstage() has stopped the writer, disarmed and queried the health.
C23_Witness ==
    /\ call = <<"unstage">>
    /\ detector_params[1].trigger_mode = "FREE_RUN"
    /\ WritesTo("odin.stop") = <<1>>
    /\ WritesTo("cam.acquire") = <<0>>
    /\ Len(HealthQueries) = 1

\* ------------------------------------------------ stage(): ROI geometry
\* The signals change_roi_mode sets.
RoiSignals == {"cam.roi_mode", "odin.file_writer.image_height",
               "odin.file_writer.image_width", "odin.file_writer.num_row_chunks",
               "odin.file_writer.num_col_chunks"}
\* The sets that switch to the ROI geometry.
RoiEnableWrites ==
    <<<<"cam.roi_mode", 1>>,
      <<"odin.file_writer.image_height", RoiSizePixels.height>>,
      <<"odin.file_writer.image_width", RoiSizePixels.width>>,
      <<"odin.file_writer.num_row_chunks", RoiSizePixels.height>>,
      <<"odin.file_writer.num_col_chunks", RoiSizePixels.width>>>>
RoiWriteCount == Cardinality({i \in 1..Len(writes) : writes[i][1] \in RoiSignals})
\* stage() ended at the check of the writer, before anything else.
AbortedAtOdinCheck == e_result.kind = "Exception"

\* C24: a stage() that gets past the check of the writer switches the ROI
\* geometry exactly once, right after clearing the writer's errors and before
\* the threshold and every other configuration set, when use_roi_mode is set
\* (ROI flag 1, height, width and chunking of the ROI size), and sets no ROI
\* signal at all when it is not set; a stage() aborted at that check sets
\* none; the cleanup of unstage() sets the flag to 0 with the size of the
\* full detector.
C24_RoiSwitchedOnceIffRequested ==
    /\ (call = <<"stage">> /\ ~AbortedAtOdinCheck) =>
          IF detector_params[1].use_roi_mode
          THEN /\ SubSeq(writes, 2, 6) = RoiEnableWrites
               /\ RoiWriteCount = 5
          ELSE RoiWriteCount = 0
    /\ (call = <<"stage">> /\ AbortedAtOdinCheck) => RoiWriteCount = 0
    /\ (call = <<"unstage">> /\ RoiWriteCount # 0) =>
          /\ RoiWriteCount = 5
          /\ SubSeq(writes, Len(writes) - 4, Len(writes)) = RoiDisableWrites
\* stage() in ROI mode has switched the geometry and gone on to the threshold
\* and camera settings.
C24_Witness ==
    /\ call = <<"stage">>
    /\ detector_params[1].use_roi_mode
    /\ WritesTo("cam.acquire_time") # <<>>
    /\ SubSeq(writes, 2, 6) = RoiEnableWrites
    /\ RoiWriteCount = 5

\* ------------------------------------------- safe move: a failed phase
\* A step in which the first-phase wait of set() ends, a move of that phase
\* having failed.
FirstPhaseFailedStep ==
    /\ pc # "idle"
    /\ pc' = "idle"
    /\ \E a \in Commanded : st[a] = "failed"

\* C25: when a move of the first phase fails, the failure reaches the caller
\* of set() and that call commands no axis of the second phase: failed
\* scatterguard moves are not followed by aperture moves, nor failed aperture
\* moves by scatterguard moves.
C25_FirstPhaseFailurePropagates ==
    /\ [][FirstPhaseFailedStep =>
            /\ result' = "StatusFailed"
            /\ cmds' = cmds
            /\ UNCHANGED <<setpoint, st>>]_vars
    /\ [](result = "StatusFailed" =>
            /\ pc = "idle"
            /\ \/ cmds = SgCommands(req)
               \/ cmds = ApCommands(req))
\* The scatterguard x move failed: set() raised, no aperture axis commanded.
C25_Witness ==
    /\ result = "StatusFailed"
    /\ st["sg_x"] = "failed"
    /\ cmds = SgCommands(req)
    /\ Commanded = ScatterguardAxes

\* ------------------------------------------------ unstage(): a failed wait
\* The waits of unstage() before the disarm.
UnstageWaits == {"frames.wait", "stop.wait", "finished.wait"}
\* A step in which one of them ends although what it waits on has failed or
\* is still pending.
UnstageWaitEndsUnfinished ==
    /\ e_pc \in UnstageWaits
    /\ ~CompDone(WaitSet(e_pc))
    /\ e_pc' # e_pc
\* Nothing of lines 102-104 has been done by the running call.
NoCleanup ==
    /\ WritesTo("cam.acquire") = <<>>
    /\ HealthQueries = <<>>
    /\ RoiWriteCount = 0

\* C26: when the wait on the frame counter, on the writer stop or on the
\* writer-finished status fails or times out, unstage() ends there with that
\* fault and does nothing more: the camera is not disarmed, the health of
\* the writer is not queried and the non-ROI geometry is not restored.
C26_UnstageWaitFailurePropagates ==
    /\ [][UnstageWaitEndsUnfinished =>
            /\ e_pc' = "idle"
            /\ e_result'.kind \in {"StatusFailed", "WaitTimeoutError"}
            /\ e_result'.msg = <<e_pc>>
            /\ writes' = writes
            /\ ret' = "none"]_vars
    /\ []((call = <<"unstage">> /\ e_pc = "idle"
              /\ e_result.kind \in {"StatusFailed", "WaitTimeoutError"}
              /\ e_result.msg[1] \in UnstageWaits) => NoCleanup)
    /\ []((call = <<"unstage">> /\ e_pc \in UnstageWaits) => NoCleanup)
\* The writer did not finish within 30 s: unstage() raised, the camera still armed.
C26_Witness ==
    /\ call = <<"unstage">>
    /\ e_pc = "idle"
    /\ e_result = Raised("WaitTimeoutError", <<"finished.wait">>)
    /\ WritesTo("odin.file_writer.start_timeout") = <<1>>
    /\ NoCleanup

\* ------------------------------------------------ the writer-finished status
\* C27: in any sequence of stage() and unstage() calls made one after the
\* other, the writer-finished status an unstage() waits on was created by
\* the most recent stage() call, also when that stage() failed before the
\* point of arming where the status is created: it is never the status of
\* an earlier acquisition.
C27_FinishedStatusOfLastStage ==
    (call = <<"unstage">> /\ e_pc = "finished.wait") => filewriters_finished = n_stage

====
